---- MODULE Spec2Model ----
(***************************************************************************)
(* A model of src/src/library/SupabaseConnector.ts: the SupabaseConnector  *)
(* class (init, uploadData, updateSession) together with the three         *)
(* collaborators it talks to: the local CRUD queue of the PowerSync        *)
(* database, the Supabase table API and the Supabase auth API.             *)
(*                                                                         *)
(* Strings that the code inspects character by character (error codes)     *)
(* are sequences of one-character strings; strings that the code builds    *)
(* by interpolation (messages) are sequences of fragments, so that         *)
(* concatenation is \o.                                                    *)
(***************************************************************************)
EXTENDS Naturals, Sequences, FiniteSets

VARIABLES
    queue,          \* the database's pending CRUD transactions, head first
    remote,         \* the remote calls the Supabase store has applied so far
    unfixable,      \* the remote calls the store rejects on every attempt
    pc,             \* where the uploadData invocation stands
    transaction,    \* uploadData's local `transaction`
    idx,            \* how many ops of transaction.crud the for loop has taken
    lastOp,         \* uploadData's local `lastOp`
    result,         \* uploadData's local `result` (of the last remote call)
    calls,          \* the remote calls this invocation has issued, in order
    console,        \* what this invocation wrote to the console, in order
    completeCalls,  \* how often this invocation called transaction.complete()
    acked,          \* how often transaction.complete() resolved in this invocation
    outcome,        \* how the last uploadData invocation ended
    ready,          \* SupabaseConnector.ready
    currentSession, \* SupabaseConnector.currentSession
    providerSession,\* the session client.auth.getSession() resolves with
    initPc,         \* where each init() call stands
    events,         \* the notifications sent to the listeners, in order
    loginOutcome,   \* how each login() call stands or ended
    credResponse,   \* fetchCredentials' locals `session` and `error`
    credOutcome     \* how the last fetchCredentials() call stands or ended

uploadVars == <<queue, remote, unfixable, pc, transaction, idx, lastOp, result,
                calls, console, completeCalls, acked, outcome>>
sessionVars == <<ready, currentSession, providerSession, initPc, events,
                 loginOutcome, credResponse, credOutcome>>
vars == <<queue, remote, unfixable, pc, transaction, idx, lastOp, result,
          calls, console, completeCalls, acked, outcome,
          ready, currentSession, providerSession, initPc, events,
          loginOutcome, credResponse, credOutcome>>

----------------------------------------------------------------------------
(* Bounds of the model. *)

\* The most CRUD entries pending in the local queue, over all transactions.
MaxPending == 3

\* The number of init() calls made during a run.
MaxInitCalls == 3

\* The number of login() calls made during a run.
MaxLoginCalls == 1

----------------------------------------------------------------------------
(* Values. *)

Null == [null |-> TRUE]

\* A JavaScript value read as `ex.code`: its typeof and its characters.
Str(chars) == [t |-> "string", v |-> chars]
Num(digits) == [t |-> "number", v |-> digits]
Undefined == [t |-> "undefined", v |-> <<>>]

\* Characters that the regular expression atom `.` does not match.
LineTerminators == {"\n", "\r", "U+2028", "U+2029"}

\* The CrudEntry values the local database hands out: table, op, id, opData.
\* opData is a set of <<column, value>> pairs; an absent opData is {}.
PutTodo == [table |-> "todos", op |-> "PUT", id |-> "1",
            opData |-> {<<"description", "buy milk">>}]
PatchTodo == [table |-> "todos", op |-> "PATCH", id |-> "1",
              opData |-> {<<"completed", "1">>}]
DeleteTodo == [table |-> "todos", op |-> "DELETE", id |-> "2", opData |-> {}]
PutList == [table |-> "lists", op |-> "PUT", id |-> "2",
            opData |-> {<<"id", "9">>, <<"name", "home">>}]
TruncateTodo == [table |-> "todos", op |-> "TRUNCATE", id |-> "1", opData |-> {}]

OpPool == {PutTodo, PatchTodo, DeleteTodo, PutList, TruncateTodo}

NoOp == [table |-> "", op |-> "", id |-> "", opData |-> {}]
NoTx == [present |-> FALSE, crud |-> <<>>]
Tx(crud) == [present |-> TRUE, crud |-> crud]

\* UpdateType, as far as uploadData's switch distinguishes its members.
UpdateType == {"PUT", "PATCH", "DELETE"}

\* All sequences over S of length at most n.
RECURSIVE SeqsUpTo(_, _)
SeqsUpTo(S, n) ==
    IF n = 0 THEN {<<>>}
    ELSE LET shorter == SeqsUpTo(S, n - 1)
         IN  shorter \cup {Append(s, x) : s \in {t \in shorter : Len(t) = n - 1}, x \in S}

\* The local queue holds one or two transactions (or none); together they
\* hold at most MaxPending CRUD entries.
Queues ==
    LET txs == SeqsUpTo(OpPool, MaxPending)
    IN  {<<>>} \cup {<<a>> : a \in txs}
             \cup {q \in txs \X txs : Len(q[1]) + Len(q[2]) <= MaxPending}

\* Errors. `code` is what `ex.code` reads, `message` what `ex.message` reads.
PostgrestError(code, message) ==
    [name |-> "PostgrestError", code |-> Str(code), message |-> message]

FkViolation == PostgrestError(<<"2", "3", "5", "0", "3">>, <<"violates foreign key constraint">>)
RlsDenied == PostgrestError(<<"4", "2", "5", "0", "1">>, <<"violates row-level security policy">>)
ConnFailure == PostgrestError(<<"0", "8", "0", "0", "6">>, <<"connection failure">>)

\* What a table call may resolve with in `result.error`.
RemoteErrors == {FkViolation, RlsDenied, ConnFailure}

\* What `ex.code` may read on a value that an awaited call rejects with.
ThrownCodes ==
    { Undefined,
      Num(<<"2", "3", "5", "0", "3">>),
      Str(<<"2", "3", "5", "0", "3">>),
      Str(<<"2", "2", "0", "0", "1">>),
      Str(<<"4", "2", "5", "0", "1">>),
      Str(<<"4", "2", "P", "0", "1">>),
      Str(<<"2", "3", "5", "0">>),
      Str(<<"2", "3", "5", "0", "3", "3">>),
      Str(<<"2", "2", "\n", "1", "2">>) }

\* What an awaited table call may reject with.
Thrown == {[name |-> "FetchError", code |-> c, message |-> <<"request failed">>] : c \in ThrownCodes}

\* What transaction.complete() may reject with.
CompleteFailures ==
    {[name |-> "SqliteError", code |-> c, message |-> <<"database is closed">>] :
        c \in {Undefined, Str(<<"2", "3", "5", "0", "3">>)}}

\* new Error(message)
NewError(message) == [name |-> "Error", code |-> Undefined, message |-> message]

----------------------------------------------------------------------------
(* FATAL_RESPONSE_CODES and its use in the catch block. *)

\* The regular expression atom `.`
Dot == "DOT"

\* Mutant of FATAL_RESPONSE_CODES: the whole class 42 instead of 42501.
FatalCodesClass42 ==
    { <<"2", "2", Dot, Dot, Dot>>,
      <<"2", "3", Dot, Dot, Dot>>,
      <<"4", "2", Dot, Dot, Dot>> }

\* The three patterns, each anchored at both ends: /^22...$/, /^23...$/, /^42501$/.
FATAL_RESPONSE_CODES ==
    { <<"2", "2", Dot, Dot, Dot>>,
      <<"2", "3", Dot, Dot, Dot>>,
      <<"4", "2", "5", "0", "1">> }

\* regex.test(s) for an anchored pattern of literals and dots, without flags.
RegexTest(regex, s) ==
    /\ Len(s) = Len(regex)
    /\ \A i \in 1..Len(regex) :
         IF regex[i] = Dot THEN s[i] \notin LineTerminators ELSE s[i] = regex[i]

\* Mutant of IsFatal: without the typeof test, regex.test() converts a number
\* to its digits.
IsFatalAnyType(ex) ==
    /\ ex.code.t \in {"string", "number"}
    /\ \E regex \in FATAL_RESPONSE_CODES : RegexTest(regex, ex.code.v)

\* typeof ex.code === "string" && FATAL_RESPONSE_CODES.some((regex) => regex.test(ex.code))
IsFatal(ex) ==
    /\ ex.code.t = "string"
    /\ \E regex \in FATAL_RESPONSE_CODES : RegexTest(regex, ex.code.v)

----------------------------------------------------------------------------
(* The remote call uploadData issues for one CrudEntry. *)

NoCall == [table |-> "", method |-> "", values |-> {}, eq |-> <<>>]

\* Mutant of MergeId: { id: op.id, ...op.opData }, an id of the payload wins.
MergeIdPayloadWins(opData, id) ==
    IF \E p \in opData : p[1] = "id" THEN opData ELSE opData \cup {<<"id", id>>}

\* { ...op.opData, id: op.id }
MergeId(opData, id) == {p \in opData : p[1] # "id"} \cup {<<"id", id>>}

\* Mutant of Dispatch: the default branch falls into the DELETE case.
DispatchDefaultDelete(op) ==
    CASE op.op = "PUT" ->
           [table |-> op.table, method |-> "upsert",
            values |-> MergeId(op.opData, op.id), eq |-> <<>>]
      [] op.op = "PATCH" ->
           [table |-> op.table, method |-> "update",
            values |-> op.opData, eq |-> <<"id", op.id>>]
      [] OTHER ->
           [table |-> op.table, method |-> "delete",
            values |-> {}, eq |-> <<"id", op.id>>]

\* The switch on op.op: the call on this.client.from(op.table), or NoCall
\* where the switch throws.
Dispatch(op) ==
    CASE op.op = "PUT" ->
           [table |-> op.table, method |-> "upsert",
            values |-> MergeId(op.opData, op.id), eq |-> <<>>]
      [] op.op = "PATCH" ->
           [table |-> op.table, method |-> "update",
            values |-> op.opData, eq |-> <<"id", op.id>>]
      [] op.op = "DELETE" ->
           [table |-> op.table, method |-> "delete",
            values |-> {}, eq |-> <<"id", op.id>>]
      [] OTHER -> NoCall

\* new Error(`Unsupported operation type: ${op.op}`)
UnsupportedError(op) == NewError(<<"Unsupported operation type: ", op.op>>)

\* new Error(`Could not update Supabase. Received error: ${result.error.message}`)
WrapError(error) ==
    NewError(<<"Could not update Supabase. Received error: ">> \o error.message)

----------------------------------------------------------------------------
(* uploadData. *)

Running == [type |-> "running", error |-> Null]
Returned == [type |-> "returned", error |-> Null]
Threw(ex) == [type |-> "threw", error |-> ex]
NotCalled == [type |-> "none", error |-> Null]

NoResult == [resolved |-> FALSE, error |-> Null]
Result(error) == [resolved |-> TRUE, error |-> error]

\* Mutant of Catch: complete() is called whatever the code is.
CatchAlwaysDiscards(ex, con, lop, cc) ==
    /\ console' = Append(Append(con, [level |-> "debug", args |-> <<ex>>]),
                         [level |-> "error",
                          args |-> <<"Data upload error - discarding", lop, ex>>])
    /\ completeCalls' = cc + 1
    /\ pc' = "catchComplete"
    /\ outcome' = Running

\* The catch block entered with ex, the console holding con and complete()
\* called cc times so far. It either calls complete() and suspends, or rethrows.
Catch(ex, con, lop, cc) ==
    LET logged == Append(con, [level |-> "debug", args |-> <<ex>>])
    IN  IF IsFatal(ex)
        THEN /\ console' = Append(logged,
                    [level |-> "error",
                     args |-> <<"Data upload error - discarding", lop, ex>>])
             /\ completeCalls' = cc + 1
             /\ pc' = "catchComplete"
             /\ outcome' = Running
        ELSE /\ console' = logged
             /\ completeCalls' = cc
             /\ pc' = "idle"
             /\ outcome' = Threw(ex)

\* Mutant of Advance: the loop stops one op early.
AdvanceSkipsLast(tx, i) ==
    IF i + 1 < Len(tx.crud)
    THEN LET op == tx.crud[i + 1]
         IN  /\ idx' = i + 1
             /\ lastOp' = op
             /\ IF Dispatch(op) # NoCall
                THEN /\ calls' = Append(calls, Dispatch(op))
                     /\ pc' = "await"
                     /\ UNCHANGED <<console, completeCalls, outcome>>
                ELSE /\ calls' = calls
                     /\ Catch(UnsupportedError(op), console, op, completeCalls)
    ELSE /\ completeCalls' = completeCalls + 1
         /\ pc' = "complete"
         /\ UNCHANGED <<idx, lastOp, calls, console, outcome>>

\* Mutant of Advance: a transaction without ops is returned from without
\* complete().
AdvanceReturnsOnEmpty(tx, i) ==
    IF Len(tx.crud) = 0
    THEN /\ pc' = "idle"
         /\ outcome' = Returned
         /\ UNCHANGED <<idx, lastOp, calls, console, completeCalls>>
    ELSE IF i < Len(tx.crud)
    THEN LET op == tx.crud[i + 1]
         IN  /\ idx' = i + 1
             /\ lastOp' = op
             /\ IF Dispatch(op) # NoCall
                THEN /\ calls' = Append(calls, Dispatch(op))
                     /\ pc' = "await"
                     /\ UNCHANGED <<console, completeCalls, outcome>>
                ELSE /\ calls' = calls
                     /\ Catch(UnsupportedError(op), console, op, completeCalls)
    ELSE /\ completeCalls' = completeCalls + 1
         /\ pc' = "complete"
         /\ UNCHANGED <<idx, lastOp, calls, console, outcome>>

\* The for loop from its i-th iteration's end up to the next await: the call
\* for the next op, the throw of the default branch, or complete() after the
\* last op.
Advance(tx, i) ==
    IF i < Len(tx.crud)
    THEN LET op == tx.crud[i + 1]
         IN  /\ idx' = i + 1
             /\ lastOp' = op
             /\ IF Dispatch(op) # NoCall
                THEN /\ calls' = Append(calls, Dispatch(op))
                     /\ pc' = "await"
                     /\ UNCHANGED <<console, completeCalls, outcome>>
                ELSE /\ calls' = calls
                     /\ Catch(UnsupportedError(op), console, op, completeCalls)
    ELSE /\ completeCalls' = completeCalls + 1
         /\ pc' = "complete"
         /\ UNCHANGED <<idx, lastOp, calls, console, outcome>>

\* uploadData is invoked: it calls database.getNextCrudTransaction().
UploadStart ==
    /\ pc = "idle"
    /\ pc' = "getNext"
    /\ transaction' = NoTx
    /\ idx' = 0
    /\ lastOp' = NoOp
    /\ result' = NoResult
    /\ calls' = <<>>
    /\ console' = <<>>
    /\ completeCalls' = 0
    /\ acked' = 0
    /\ outcome' = Running
    /\ UNCHANGED <<queue, remote, unfixable>>
    /\ UNCHANGED sessionVars

\* Mutant of NoTransaction: an empty queue is reported as an error.
NoTransactionThrows ==
    /\ pc = "getNext"
    /\ queue = <<>>
    /\ pc' = "idle"
    /\ outcome' = Threw(NewError(<<"No pending transaction">>))
    /\ UNCHANGED <<queue, remote, unfixable, transaction, idx, lastOp, result,
                   calls, console, completeCalls, acked>>
    /\ UNCHANGED sessionVars

\* getNextCrudTransaction() resolved with null.
NoTransaction ==
    /\ pc = "getNext"
    /\ queue = <<>>
    /\ pc' = "idle"
    /\ outcome' = Returned
    /\ UNCHANGED <<queue, remote, unfixable, transaction, idx, lastOp, result,
                   calls, console, completeCalls, acked>>
    /\ UNCHANGED sessionVars

\* Mutant of BorrowTransaction: the loop starts at the second op.
BorrowSkipsFirst ==
    /\ pc = "getNext"
    /\ queue # <<>>
    /\ transaction' = Tx(Head(queue))
    /\ Advance(Tx(Head(queue)), IF Len(Head(queue)) > 1 THEN 1 ELSE 0)
    /\ UNCHANGED <<queue, remote, unfixable, result, acked>>
    /\ UNCHANGED sessionVars

\* Mutant of BorrowTransaction: the newest transaction is taken, not the oldest.
BorrowLast ==
    /\ pc = "getNext"
    /\ queue # <<>>
    /\ transaction' = Tx(queue[Len(queue)])
    /\ Advance(Tx(queue[Len(queue)]), 0)
    /\ UNCHANGED <<queue, remote, unfixable, result, acked>>
    /\ UNCHANGED sessionVars

\* getNextCrudTransaction() resolved with the head of the queue.
BorrowTransaction ==
    /\ pc = "getNext"
    /\ queue # <<>>
    /\ transaction' = Tx(Head(queue))
    /\ Advance(Tx(Head(queue)), 0)
    /\ UNCHANGED <<queue, remote, unfixable, result, acked>>
    /\ UNCHANGED sessionVars

\* The awaited table call resolved without an error.
RemoteOk ==
    /\ pc = "await"
    /\ calls[Len(calls)] \notin unfixable
    /\ result' = Result(Null)
    /\ remote' = remote \cup {calls[Len(calls)]}
    /\ Advance(transaction, idx)
    /\ UNCHANGED <<queue, unfixable, transaction, acked>>
    /\ UNCHANGED sessionVars

\* The awaited table call resolved with result.error set.
RemoteError ==
    /\ pc = "await"
    /\ \E error \in RemoteErrors :
         /\ calls[Len(calls)] \in unfixable => error = FkViolation
         /\ result' = Result(error)
         /\ Catch(WrapError(error),
                  Append(console, [level |-> "error", args |-> <<error>>]),
                  lastOp, completeCalls)
    /\ UNCHANGED <<queue, remote, unfixable, transaction, idx, lastOp, calls, acked>>
    /\ UNCHANGED sessionVars

\* The awaited table call rejected.
RemoteThrow ==
    /\ pc = "await"
    /\ calls[Len(calls)] \notin unfixable
    /\ \E ex \in Thrown : Catch(ex, console, lastOp, completeCalls)
    /\ UNCHANGED <<queue, remote, unfixable, transaction, idx, lastOp, result,
                   calls, acked>>
    /\ UNCHANGED sessionVars

\* transaction.complete() took effect: the transaction leaves the queue.
Completed == IF acked = 0 THEN Tail(queue) ELSE queue

\* The complete() of the try block resolved.
CompleteOk ==
    /\ pc = "complete"
    /\ queue' = Completed
    /\ acked' = acked + 1
    /\ pc' = "idle"
    /\ outcome' = Returned
    /\ UNCHANGED <<remote, unfixable, transaction, idx, lastOp, result, calls,
                   console, completeCalls>>
    /\ UNCHANGED sessionVars

\* The complete() of the try block rejected.
CompleteFail ==
    /\ pc = "complete"
    /\ \E ex \in CompleteFailures : Catch(ex, console, lastOp, completeCalls)
    /\ UNCHANGED <<queue, remote, unfixable, transaction, idx, lastOp, result,
                   calls, acked>>
    /\ UNCHANGED sessionVars

\* The complete() of the catch block resolved.
CatchCompleteOk ==
    /\ pc = "catchComplete"
    /\ queue' = Completed
    /\ acked' = acked + 1
    /\ pc' = "idle"
    /\ outcome' = Returned
    /\ UNCHANGED <<remote, unfixable, transaction, idx, lastOp, result, calls,
                   console, completeCalls>>
    /\ UNCHANGED sessionVars

\* The complete() of the catch block rejected: the rejection leaves uploadData.
CatchCompleteFail ==
    /\ pc = "catchComplete"
    /\ \E ex \in CompleteFailures :
         /\ pc' = "idle"
         /\ outcome' = Threw(ex)
    /\ UNCHANGED <<queue, remote, unfixable, transaction, idx, lastOp, result,
                   calls, console, completeCalls, acked>>
    /\ UNCHANGED sessionVars

----------------------------------------------------------------------------
(* Sessions, init and updateSession. *)

\* Session.access_token and Session.expires_at (seconds), either may be absent.
NoToken == [has |-> FALSE, v |-> ""]
Token(v) == [has |-> TRUE, v |-> v]
NoExpiry == [has |-> FALSE, secs |-> 0]
Expiry(secs) == [has |-> TRUE, secs |-> secs]

NoSession == [present |-> FALSE, access_token |-> NoToken, expires_at |-> NoExpiry]
SessionA == [present |-> TRUE, access_token |-> Token("tokenA"), expires_at |-> Expiry(1700)]
SessionBare == [present |-> TRUE, access_token |-> NoToken, expires_at |-> NoExpiry]

SessionPool == {SessionA, SessionBare}

\* A notification as a listener sees it: its type, the session passed, and
\* the value of this.ready while the callbacks run.
Initialized(r) == [type |-> "initialized", session |-> NoSession, ready |-> r]
SessionStarted(session, r) == [type |-> "sessionStarted", session |-> session, ready |-> r]

\* What updateSession(session) sends: sessionStarted, unless !session.
SessionEvents(session, r) ==
    IF session = NoSession THEN <<>> ELSE <<SessionStarted(session, r)>>

InitCalls == 1..MaxInitCalls

\* Mutant of InitSkip: init() without the check of this.ready.
InitSkipRefetches(c) ==
    /\ initPc[c] = "new"
    /\ ready
    /\ initPc' = [initPc EXCEPT ![c] = "fetching"]
    /\ UNCHANGED <<ready, currentSession, providerSession, events>>
    /\ UNCHANGED <<loginOutcome, credResponse, credOutcome>>
    /\ UNCHANGED uploadVars

\* init() is called while this.ready is set: it returns at once.
InitSkip(c) ==
    /\ initPc[c] = "new"
    /\ ready
    /\ initPc' = [initPc EXCEPT ![c] = "skipped"]
    /\ UNCHANGED <<ready, currentSession, providerSession, events>>
    /\ UNCHANGED <<loginOutcome, credResponse, credOutcome>>
    /\ UNCHANGED uploadVars

\* init() is called while this.ready is not set: it calls getSession().
InitFetch(c) ==
    /\ initPc[c] = "new"
    /\ ~ready
    /\ initPc' = [initPc EXCEPT ![c] = "fetching"]
    /\ UNCHANGED <<ready, currentSession, providerSession, events>>
    /\ UNCHANGED <<loginOutcome, credResponse, credOutcome>>
    /\ UNCHANGED uploadVars

\* Mutant of InitResolve: the initialized callbacks run before ready is set.
InitResolveNotifiesFirst(c) ==
    /\ initPc[c] = "fetching"
    /\ currentSession' = providerSession
    /\ ready' = TRUE
    /\ events' = events \o SessionEvents(providerSession, ready) \o <<Initialized(ready)>>
    /\ initPc' = [initPc EXCEPT ![c] = "done"]
    /\ UNCHANGED providerSession
    /\ UNCHANGED <<loginOutcome, credResponse, credOutcome>>
    /\ UNCHANGED uploadVars

\* getSession() resolved: updateSession, ready = true, the initialized callbacks.
InitResolve(c) ==
    /\ initPc[c] = "fetching"
    /\ currentSession' = providerSession
    /\ ready' = TRUE
    /\ events' = events \o SessionEvents(providerSession, ready) \o <<Initialized(TRUE)>>
    /\ initPc' = [initPc EXCEPT ![c] = "done"]
    /\ UNCHANGED providerSession
    /\ UNCHANGED <<loginOutcome, credResponse, credOutcome>>
    /\ UNCHANGED uploadVars

\* getSession() rejected: the rejection leaves init().
InitReject(c) ==
    /\ initPc[c] = "fetching"
    /\ initPc' = [initPc EXCEPT ![c] = "failed"]
    /\ UNCHANGED <<ready, currentSession, providerSession, events>>
    /\ UNCHANGED <<loginOutcome, credResponse, credOutcome>>
    /\ UNCHANGED uploadVars

----------------------------------------------------------------------------
(* login. *)

LoginCalls == 1..MaxLoginCalls

\* The error signInWithPassword() resolves with when it refuses the password.
InvalidCredentials ==
    [name |-> "AuthApiError", code |-> Undefined, message |-> <<"Invalid login credentials">>]

\* login() is called: it calls signInWithPassword().
LoginCall(c) ==
    /\ loginOutcome[c] = NotCalled
    /\ loginOutcome' = [loginOutcome EXCEPT ![c] = Running]
    /\ UNCHANGED <<ready, currentSession, providerSession, initPc, events>>
    /\ UNCHANGED <<credResponse, credOutcome>>
    /\ UNCHANGED uploadVars

\* signInWithPassword() resolved with a session, which the client keeps:
\* updateSession(session).
LoginResolve(c) ==
    /\ loginOutcome[c] = Running
    /\ \E session \in SessionPool :
         /\ providerSession' = session
         /\ currentSession' = session
         /\ events' = events \o SessionEvents(session, ready)
    /\ loginOutcome' = [loginOutcome EXCEPT ![c] = Returned]
    /\ UNCHANGED <<ready, initPc>>
    /\ UNCHANGED <<credResponse, credOutcome>>
    /\ UNCHANGED uploadVars

\* Mutant of LoginError: updateSession(session) before the error is looked at.
LoginErrorClearsSession(c) ==
    /\ loginOutcome[c] = Running
    /\ currentSession' = NoSession
    /\ loginOutcome' = [loginOutcome EXCEPT ![c] = Threw(InvalidCredentials)]
    /\ UNCHANGED <<ready, providerSession, initPc, events>>
    /\ UNCHANGED <<credResponse, credOutcome>>
    /\ UNCHANGED uploadVars

\* signInWithPassword() resolved with an error: throw error.
LoginError(c) ==
    /\ loginOutcome[c] = Running
    /\ loginOutcome' = [loginOutcome EXCEPT ![c] = Threw(InvalidCredentials)]
    /\ UNCHANGED <<ready, currentSession, providerSession, initPc, events>>
    /\ UNCHANGED <<credResponse, credOutcome>>
    /\ UNCHANGED uploadVars

\* The session the client holds ends (it expires, or is signed out elsewhere).
ProviderSessionEnds ==
    /\ providerSession # NoSession
    /\ providerSession' = NoSession
    /\ UNCHANGED <<ready, currentSession, initPc, events>>
    /\ UNCHANGED <<loginOutcome, credResponse, credOutcome>>
    /\ UNCHANGED uploadVars

----------------------------------------------------------------------------
(* fetchCredentials. *)

\* this.config.powersyncUrl
PowersyncUrl == "VITE_POWERSYNC_URL"

\* The error getSession() resolves with when it cannot produce the session.
SessionError ==
    [name |-> "AuthSessionMissingError", code |-> Undefined, message |-> <<"Auth session missing!">>]

\* What getSession() resolved with: data.session and error.
NoResponse == [resolved |-> FALSE, session |-> NoSession, error |-> Null]
Response(session, error) == [resolved |-> TRUE, session |-> session, error |-> error]

\* `${error}`
ErrorToString(error) ==
    IF error = Null THEN <<"null">> ELSE <<error.name, ": ">> \o error.message

\* new Date(seconds * 1000), or undefined
NoDate == [has |-> FALSE, ms |-> 0]
Date(ms) == [has |-> TRUE, ms |-> ms]

\* Mutant of Credentials: a missing expiry is read as zero seconds.
CredentialsEpochExpiry(session) ==
    [endpoint |-> PowersyncUrl,
     token |-> IF session.access_token.has THEN session.access_token.v ELSE "",
     expiresAt |-> Date(session.expires_at.secs * 1000)]

\* The value fetchCredentials returns for a session.
Credentials(session) ==
    [endpoint |-> PowersyncUrl,
     token |-> IF session.access_token.has THEN session.access_token.v ELSE "",
     expiresAt |-> IF session.expires_at.has /\ session.expires_at.secs # 0
                   THEN Date(session.expires_at.secs * 1000)
                   ELSE NoDate]

CredReturned(value) == [type |-> "returned", error |-> Null, value |-> value]

\* fetchCredentials() is called: it calls getSession().
CredCall ==
    /\ credOutcome.type # "running"
    /\ credOutcome' = Running
    /\ credResponse' = NoResponse
    /\ UNCHANGED <<ready, currentSession, providerSession, initPc, events, loginOutcome>>
    /\ UNCHANGED uploadVars

\* What fetchCredentials does with the response of getSession().
CredResult(response) ==
    IF response.session = NoSession \/ response.error # Null
    THEN Threw(NewError(<<"Could not fetch Supabase credentials: ">>
                        \o ErrorToString(response.error)))
    ELSE CredReturned(Credentials(response.session))

\* Mutant of CredResolve: the credentials are those of this.currentSession.
CredResolveFromCache ==
    /\ credOutcome = Running
    /\ \E response \in {Response(providerSession, Null), Response(NoSession, SessionError)} :
         /\ credResponse' = response
         /\ credOutcome' = CredResult(Response(currentSession, response.error))
    /\ UNCHANGED <<ready, currentSession, providerSession, initPc, events, loginOutcome>>
    /\ UNCHANGED uploadVars

\* Mutant of CredResolve: the session fetched is kept as this.currentSession.
CredResolveKeepsSession ==
    /\ credOutcome = Running
    /\ \E response \in {Response(providerSession, Null), Response(NoSession, SessionError)} :
         /\ credResponse' = response
         /\ credOutcome' = CredResult(response)
         /\ currentSession' = response.session
    /\ UNCHANGED <<ready, providerSession, initPc, events, loginOutcome>>
    /\ UNCHANGED uploadVars

\* getSession() resolved, with the session the client holds or with an error.
CredResolve ==
    /\ credOutcome = Running
    /\ \E response \in {Response(providerSession, Null), Response(NoSession, SessionError)} :
         /\ credResponse' = response
         /\ credOutcome' = CredResult(response)
    /\ UNCHANGED <<ready, currentSession, providerSession, initPc, events, loginOutcome>>
    /\ UNCHANGED uploadVars

\* getSession() rejected: the rejection leaves fetchCredentials().
CredReject ==
    /\ credOutcome = Running
    /\ credOutcome' = Threw([name |-> "FetchError", code |-> Undefined,
                             message |-> <<"request failed">>])
    /\ UNCHANGED <<ready, currentSession, providerSession, initPc, events, loginOutcome>>
    /\ UNCHANGED <<credResponse>>
    /\ UNCHANGED uploadVars

\* No init() call is suspended at its getSession().
NoInitInFlight == \A c \in InitCalls : initPc[c] # "fetching"

----------------------------------------------------------------------------
(* The state after construction, and the specifications. *)

UploadIdle ==
    /\ remote = {}
    /\ pc = "idle"
    /\ transaction = NoTx
    /\ idx = 0
    /\ lastOp = NoOp
    /\ result = NoResult
    /\ calls = <<>>
    /\ console = <<>>
    /\ completeCalls = 0
    /\ acked = 0
    /\ outcome = NotCalled

SessionFresh ==
    /\ ready = FALSE
    /\ currentSession = NoSession
    /\ initPc = [c \in InitCalls |-> "new"]
    /\ events = <<>>
    /\ loginOutcome = [c \in LoginCalls |-> NotCalled]
    /\ credResponse = NoResponse
    /\ credOutcome = NotCalled

\* uploadData against any local queue, every remote call free to succeed.
UploadInit ==
    /\ queue \in Queues
    /\ unfixable = {}
    /\ UploadIdle
    /\ SessionFresh
    /\ providerSession = NoSession

UploadNext ==
    \/ UploadStart
    \/ NoTransaction
    \/ BorrowTransaction
    \/ RemoteOk
    \/ RemoteError
    \/ RemoteThrow
    \/ CompleteOk
    \/ CompleteFail
    \/ CatchCompleteOk
    \/ CatchCompleteFail

UploadSpec == UploadInit /\ [][UploadNext]_vars

\* uploadData against a store that rejects the delete of todo 2 on every
\* attempt (a foreign key still references the row), invoked again and again
\* by the sync runtime. Every other call and every complete() succeeds sooner
\* or later, at each position of the transaction.
UnfixableInit ==
    /\ queue \in Queues
    /\ unfixable = {Dispatch(DeleteTodo)}
    /\ UploadIdle
    /\ SessionFresh
    /\ providerSession = NoSession

UploadFairness ==
    /\ WF_vars(UploadStart)
    /\ WF_vars(NoTransaction)
    /\ WF_vars(BorrowTransaction)
    /\ WF_vars(RemoteOk \/ RemoteError \/ RemoteThrow)
    /\ WF_vars(CompleteOk \/ CompleteFail)
    /\ WF_vars(CatchCompleteOk \/ CatchCompleteFail)
    /\ \A i \in 1..MaxPending : SF_vars(RemoteOk /\ idx = i)
    /\ SF_vars(CompleteOk)
    /\ SF_vars(CatchCompleteOk)

UploadFairSpec == UnfixableInit /\ [][UploadNext]_vars /\ UploadFairness

\* uploadData against a store that may accept every call, invoked again and
\* again by the sync runtime.
RetryQueues ==
    {q \in Queues : \A i \in 1..Len(q) : \A j \in 1..Len(q[i]) :
                        q[i][j] \in {PutTodo, DeleteTodo}}

RetryInit ==
    /\ queue \in RetryQueues
    /\ unfixable = {}
    /\ UploadIdle
    /\ SessionFresh
    /\ providerSession = NoSession

\* Every step of uploadData that can be taken is taken; the store accepts each
\* call, and the local database each complete(), sooner or later.
RetryFairness ==
    /\ WF_vars(UploadNext)
    /\ \A i \in 1..MaxPending : SF_vars(RemoteOk /\ idx = i)
    /\ SF_vars(CompleteOk)

RetrySpec == RetryInit /\ [][UploadNext]_vars /\ RetryFairness

\* init(), login() and fetchCredentials() calls that may overlap.
SessionInit ==
    /\ queue = <<>>
    /\ unfixable = {}
    /\ UploadIdle
    /\ SessionFresh
    /\ providerSession \in {NoSession} \cup SessionPool

InitNext ==
    \E c \in InitCalls :
        \/ InitSkip(c)
        \/ InitFetch(c)
        \/ InitResolve(c)
        \/ InitReject(c)

LoginNext ==
    \E c \in LoginCalls :
        \/ LoginCall(c)
        \/ LoginResolve(c)
        \/ LoginError(c)

CredNext ==
    \/ CredCall
    \/ CredResolve
    \/ CredReject

SessionNext ==
    \/ InitNext
    \/ LoginNext
    \/ CredNext
    \/ ProviderSessionEnds

SessionSpec == SessionInit /\ [][SessionNext]_vars

\* One transaction of one op to upload while fetchCredentials() is called and
\* init() and login() are called one call after the other.
FrameInit ==
    /\ queue = <<<<PutTodo>>>>
    /\ unfixable = {}
    /\ UploadIdle
    /\ SessionFresh
    /\ providerSession = SessionA

\* Call c is made once every earlier call has ended.
InitInOrder(c) == \A d \in 1..(c - 1) : initPc[d] \notin {"new", "fetching"}
LoginInOrder(c) == \A d \in 1..(c - 1) : loginOutcome[d].type \in {"returned", "threw"}

FrameNext ==
    \/ UploadNext
    \/ CredNext
    \/ \E c \in LoginCalls :
          \/ LoginInOrder(c) /\ LoginCall(c)
          \/ LoginResolve(c)
          \/ LoginError(c)
    \/ \E c \in InitCalls :
          \/ InitInOrder(c) /\ InitSkip(c)
          \/ InitInOrder(c) /\ InitFetch(c)
          \/ InitResolve(c)
          \/ InitReject(c)

FrameSpec == FrameInit /\ [][FrameNext]_vars

\* init() calls alone, made one after the other: none starts while another
\* is suspended.
SerialNext ==
    \E c \in InitCalls :
        \/ InitSkip(c)
        \/ (NoInitInFlight /\ InitFetch(c))
        \/ InitResolve(c)
        \/ InitReject(c)

SerialSpec == SessionInit /\ [][SerialNext]_vars

----------------------------------------------------------------------------
(* Vocabulary of the properties. *)

\* The last uploadData invocation has ended.
Finished == pc = "idle" /\ outcome.type \in {"returned", "threw"}

\* The number of ops of the borrowed transaction.
NumOps == Len(transaction.crud)

\* The calls for the first k ops of the borrowed transaction, in order.
OpsCalls(k) == [j \in 1..k |-> Dispatch(transaction.crud[j])]

\* The last remote call resolved with result.error set.
RemoteReported == result.resolved /\ result.error # Null

\* The code of the reported error matches 22xxx, 23xxx or 42501.
ReportedFatal == RemoteReported /\ IsFatal(result.error)

\* The number of notifications of the given type sent so far.
CountEvents(type) == Cardinality({i \in 1..Len(events) : events[i].type = type})

\* The init() calls that have called getSession().
Fetchers == {c \in InitCalls : initPc[c] \in {"fetching", "done", "failed"}}

----------------------------------------------------------------------------
(* Properties of uploadData. *)

\* C1: when the remote store reports a Fatal-classified error (22xxx, 23xxx,
\* 42501) for operation k of N, k < N, the invocation has applied operations
\* 1..k-1, issues no call after the k-th and calls complete(); once
\* complete() has resolved the transaction is acknowledged and uploadData
\* returns, and no exception other than a rejection of complete() itself
\* leaves uploadData.
C1_FatalErrorDiscards ==
    (ReportedFatal /\ idx < NumOps) =>
        /\ calls = OpsCalls(idx)
        /\ \A j \in 1..(idx - 1) : calls[j] \in remote
        /\ completeCalls = 1
        /\ pc \in {"catchComplete", "idle"}
        /\ Finished =>
             \/ acked = 1 /\ outcome = Returned
             \/ acked = 0 /\ outcome.type = "threw" /\ outcome.error \in CompleteFailures

\* C2: when the remote store reports an error whose code is not Fatal, the
\* transaction is not completed, no call follows the failing one, and the
\* caller receives the remote store's error itself.
C2_TransientErrorUnchanged ==
    (Finished /\ RemoteReported /\ ~ReportedFatal) =>
        /\ calls = OpsCalls(idx)
        /\ completeCalls = 0
        /\ acked = 0
        /\ outcome = Threw(result.error)

\* The head transaction's first op that cannot succeed is one the store
\* rejects with a Fatal code on every attempt.
HeadUnfixable ==
    /\ queue # <<>>
    /\ \E k \in 1..Len(Head(queue)) :
         /\ Dispatch(Head(queue)[k]) \in unfixable
         /\ \A j \in 1..(k - 1) :
              /\ Dispatch(Head(queue)[j]) # NoCall
              /\ Dispatch(Head(queue)[j]) \notin unfixable

\* C3: a head transaction holding an operation that the store rejects with a
\* Fatal code on every attempt is eventually acknowledged and leaves the
\* queue, under repeated invocation of uploadData.
C3_QueueUnblocks ==
    \A n \in 1..2 : (Len(queue) = n /\ HeadUnfixable) ~> (Len(queue) < n)

\* A remote call is issued for the next op of the transaction, and only in the
\* step in which uploadData borrowed the transaction or the previous call
\* resolved without error.
C4_CallIssued ==
    (calls' # calls /\ calls' # <<>>) =>
        /\ Len(calls') = Len(calls) + 1
        /\ calls' = OpsCalls(Len(calls))'
        /\ \/ pc = "getNext" /\ calls = <<>>
           \/ pc = "await" /\ result' = Result(Null) /\ calls[Len(calls)] \in remote'

\* The complete() of the try block is called after a call for each op, in the
\* step in which the last of them resolved without error.
C4_CompleteCalled ==
    (pc' = "complete" /\ pc # "complete") =>
        /\ calls' = OpsCalls(NumOps)'
        /\ completeCalls' = 1
        /\ acked' = 0
        /\ \/ pc = "getNext" /\ NumOps' = 0
           \/ pc = "await" /\ result' = Result(Null)

\* When that complete() resolves the transaction leaves the queue and
\* uploadData returns.
C4_CompleteResolved ==
    (pc = "complete" /\ acked' # acked) =>
        /\ queue' = Tail(queue)
        /\ Head(queue) = transaction.crud
        /\ outcome' = Returned
        /\ pc' = "idle"
        /\ acked' = 1
        /\ calls' = OpsCalls(NumOps)
        /\ completeCalls' = 1

\* C4: when every operation succeeds, the calls issued are those of the
\* transaction's operations, one each and in order; a call is issued only in
\* the step in which its predecessor resolved without error; complete() is
\* called once, only in the step in which the last call resolved; and when
\* complete() resolves the transaction has left the queue and uploadData
\* returns without error.
C4_AllSucceed ==
    [][C4_CallIssued /\ C4_CompleteCalled /\ C4_CompleteResolved]_vars

\* Every operation of a transaction of three succeeded and uploadData returned.
C4_Witness ==
    /\ Finished
    /\ NumOps = 3
    /\ Len(calls) = 3
    /\ console = <<>>
    /\ outcome = Returned
    /\ acked = 1

\* C5: on an operation whose kind is not PUT, PATCH or DELETE, uploadData
\* throws an error naming the kind, issues no call for it or for any later
\* operation, and does not complete the transaction; the operations before
\* it stay applied.
C5_UnsupportedKind ==
    (transaction.present /\ idx >= 1 /\ lastOp.op \notin UpdateType) =>
        /\ Finished
        /\ outcome.type = "threw"
        /\ outcome.error.name = "Error"
        /\ outcome.error.message = <<"Unsupported operation type: ", transaction.crud[idx].op>>
        /\ calls = OpsCalls(idx - 1)
        /\ \A j \in 1..(idx - 1) : calls[j] \in remote
        /\ completeCalls = 0
        /\ acked = 0
        /\ queue # <<>>
        /\ Head(queue) = transaction.crud

\* An unsupported operation was met after one that had been applied, with
\* another behind it.
C5_Witness ==
    /\ Finished
    /\ NumOps = 3
    /\ idx = 2
    /\ lastOp.op \notin UpdateType
    /\ Len(calls) = 1

\* C6: for a transaction without operations uploadData issues no remote call
\* and calls complete(); the transaction is never acknowledged twice, and
\* when that complete() resolves it has been called once and uploadData
\* returns without error.
C6_EmptyTransaction ==
    (transaction.present /\ NumOps = 0) =>
        /\ calls = <<>>
        /\ acked <= 1
        /\ pc \in {"complete", "catchComplete", "idle"}
        /\ pc = "complete" => completeCalls = 1 /\ acked = 0
        /\ (Finished /\ console = <<>>) =>
              /\ outcome = Returned
              /\ completeCalls = 1
              /\ acked = 1

\* An empty transaction was completed.
C6_Witness ==
    /\ Finished
    /\ transaction.present
    /\ NumOps = 0
    /\ console = <<>>
    /\ acked = 1

\* The step that follows getNextCrudTransaction() resolving with null.
C7_Step ==
    (pc = "getNext" /\ queue = <<>> /\ pc' # pc) =>
        /\ pc' = "idle"
        /\ outcome' = Returned
        /\ UNCHANGED <<queue, remote, calls, completeCalls, acked, console>>

\* C7: with no pending transaction uploadData returns at once without error:
\* no remote call, no complete(), queue and remote store as they were.
C7_NothingPending ==
    /\ [][C7_Step]_vars
    /\ []((Finished /\ ~transaction.present) =>
            /\ outcome = Returned
            /\ calls = <<>>
            /\ completeCalls = 0
            /\ acked = 0
            /\ queue = <<>>)

\* uploadData returned on an empty queue after an earlier invocation had
\* drained it.
C7_Witness ==
    /\ Finished
    /\ ~transaction.present
    /\ remote # {}

\* C8: every call goes to the table its operation names; PUT is an upsert of
\* the payload with id set to the operation's id (the operation's id wins),
\* PATCH an update of the payload where id equals the operation's id, and
\* DELETE a delete where id equals the operation's id.
C8_Dispatch ==
    \A j \in 1..Len(calls) :
        LET op == transaction.crud[j]
            c == calls[j]
        IN  /\ c.table = op.table
            /\ op.op \in UpdateType
            /\ op.op = "PUT" =>
                 /\ c.method = "upsert"
                 /\ c.eq = <<>>
                 /\ <<"id", op.id>> \in c.values
                 /\ \A p \in c.values : p[1] = "id" => p[2] = op.id
                 /\ \A p \in op.opData : p[1] # "id" => p \in c.values
                 /\ \A p \in c.values : p[1] # "id" => p \in op.opData
            /\ op.op = "PATCH" =>
                 /\ c.method = "update"
                 /\ c.values = op.opData
                 /\ c.eq = <<"id", op.id>>
            /\ op.op = "DELETE" =>
                 /\ c.method = "delete"
                 /\ c.values = {}
                 /\ c.eq = <<"id", op.id>>

\* A PUT whose payload carries another id, a PATCH and a DELETE were issued.
C8_Witness ==
    /\ Len(calls) = 3
    /\ transaction.crud = <<PutList, PatchTodo, DeleteTodo>>

\* The catch block of this invocation was entered.
CatchEntered == \E i \in 1..Len(console) : console[i].level = "debug"

\* The value the catch block was entered with (console.debug(ex)).
CaughtEx == console[CHOOSE i \in 1..Len(console) : console[i].level = "debug"].args[1]

\* C13: an error caught by uploadData that has no code, or a code that is not
\* a string (such as the number 23503), is treated as Transient: the catch
\* block does not call complete(), the transaction stays unacknowledged at
\* the head of the queue, and the error is rethrown.
C13_NonStringCodeTransient ==
    (CatchEntered /\ CaughtEx.code.t # "string") =>
        /\ Finished
        /\ outcome = Threw(CaughtEx)
        /\ acked = 0
        /\ completeCalls = IF CaughtEx \in CompleteFailures THEN 1 ELSE 0
        /\ queue # <<>>
        /\ Head(queue) = transaction.crud

\* A rejection carrying the number 23503 was rethrown.
C13_Witness ==
    /\ Finished
    /\ CatchEntered
    /\ CaughtEx.code = Num(<<"2", "3", "5", "0", "3">>)
    /\ outcome = Threw(CaughtEx)

\* An awaited table call rejected with a value carrying a string code.
ThrownWithStringCode ==
    /\ CatchEntered
    /\ CaughtEx \in Thrown
    /\ CaughtEx.code.t = "string"

\* Five characters beginning with 22 or with 23, or exactly 42501.
FiveCharsFatal(v) ==
    \/ Len(v) = 5 /\ v[1] = "2" /\ v[2] \in {"2", "3"}
    \/ v = <<"4", "2", "5", "0", "1">>

\* What follows a rejection with a string code, given whether the code counts
\* as Fatal: no call after the k-th; if Fatal, complete() is called, and once
\* it has resolved the transaction is acknowledged and uploadData returns;
\* if not, no complete() and the rejection is rethrown.
AfterThrown(fatal) ==
    /\ calls = OpsCalls(idx)
    /\ IF fatal
       THEN /\ completeCalls = 1
            /\ pc \in {"catchComplete", "idle"}
            /\ Finished =>
                 \/ acked = 1 /\ outcome = Returned
                 \/ acked = 0 /\ outcome.type = "threw"
                              /\ outcome.error \in CompleteFailures
       ELSE /\ Finished
            /\ completeCalls = 0
            /\ acked = 0
            /\ outcome = Threw(CaughtEx)

\* C14 as claimed: a rejection with a string code is discarded if and only if
\* the code is five characters beginning with 22 or 23, or is 42501.
C14_FiveCharsFatal ==
    ThrownWithStringCode => AfterThrown(FiveCharsFatal(CaughtEx.code.v))

\* C14, amended: a rejection with a string code is discarded if and only if
\* the code is 22 or 23 followed by three characters none of which is a line
\* terminator (\n, \r, U+2028, U+2029), or is 42501; every other string code
\* is rethrown with the transaction unacknowledged. In both cases operations
\* k+1..N are never attempted.
C14_FatalPatterns ==
    ThrownWithStringCode =>
        AfterThrown(/\ FiveCharsFatal(CaughtEx.code.v)
                    /\ \A i \in 1..Len(CaughtEx.code.v) :
                         CaughtEx.code.v[i] \notin {"\n", "\r", "U+2028", "U+2029"})

\* The first of three operations was rejected with 23503 and the transaction
\* acknowledged.
C14_Witness ==
    /\ Finished
    /\ ThrownWithStringCode
    /\ CaughtEx.code.v = <<"2", "3", "5", "0", "3">>
    /\ idx = 1
    /\ NumOps = 3
    /\ acked = 1

\* Every op of the head transaction is of a supported kind.
HeadSupported ==
    /\ queue # <<>>
    /\ \A j \in 1..Len(Head(queue)) : Dispatch(Head(queue)[j]) # NoCall

\* A failure of operation k that the catch block classifies as Transient
\* leaves the transaction unacknowledged at the head of the queue, with
\* operations 1..k-1 applied.
C15_AfterTransient ==
    (CatchEntered /\ ~IsFatal(CaughtEx) /\ CaughtEx \notin CompleteFailures) =>
        /\ Finished
        /\ outcome.type = "threw"
        /\ acked = 0
        /\ queue # <<>>
        /\ Head(queue) = transaction.crud
        /\ idx >= 1
        /\ \A j \in 1..(idx - 1) : Dispatch(transaction.crud[j]) \in remote

\* What the store has applied stays applied; the queue changes only by an
\* acknowledgement; and an invocation takes the head transaction from its
\* first op.
C15_Step ==
    /\ remote \subseteq remote'
    /\ queue' # queue => acked' = acked + 1
    /\ (pc = "getNext" /\ pc' # "getNext" /\ queue # <<>>) =>
          /\ queue' = queue
          /\ transaction' = Tx(Head(queue))
          /\ idx' = IF Len(Head(queue)) > 0 THEN 1 ELSE 0
          /\ (Len(Head(queue)) > 0 /\ Dispatch(Head(queue)[1]) # NoCall) =>
                calls' = <<Dispatch(Head(queue)[1])>>

\* C15: after a transient failure at operation k the transaction is still the
\* head of the queue, unchanged, and operations 1..k-1 remain applied; the
\* next invocation replays it from operation 1; and when the store accepts
\* every operation sooner or later, repeated invocation eventually
\* acknowledges the transaction.
C15_Redelivery ==
    /\ []C15_AfterTransient
    /\ [][C15_Step]_vars
    /\ \A n \in 1..2 : (Len(queue) = n /\ HeadSupported) ~> (Len(queue) < n)

\* The replay of a transaction of three has re-issued its first operation,
\* which the store had applied before.
C15_Witness ==
    /\ pc = "await"
    /\ Len(queue) = 1
    /\ NumOps = 3
    /\ idx = 1
    /\ calls[1] \in remote
    /\ Dispatch(transaction.crud[2]) \notin remote
    /\ Dispatch(transaction.crud[3]) \notin remote
    /\ transaction.crud[2] # transaction.crud[1]
    /\ transaction.crud[3] # transaction.crud[1]

\* An invocation asks for the next transaction once, holds the head of the
\* queue until it ends, and issues calls for ops of that transaction only.
C16_OneTransaction ==
    /\ pc \in {"await", "complete", "catchComplete"} =>
          /\ transaction.present
          /\ queue # <<>>
          /\ Head(queue) = transaction.crud
          /\ acked = 0
    /\ Len(calls) <= NumOps
    /\ calls = OpsCalls(Len(calls))
    /\ acked <= 1

\* getNextCrudTransaction() is called only as an invocation starts; the
\* borrowed transaction is the head and is not exchanged; and only the head,
\* being the borrowed transaction, leaves the queue.
C16_Step ==
    /\ (pc' = "getNext" /\ pc # "getNext") => pc = "idle"
    /\ transaction' # transaction =>
          \/ pc = "idle" /\ transaction' = NoTx
          \/ pc = "getNext" /\ queue # <<>> /\ transaction' = Tx(Head(queue))
    /\ queue' # queue =>
          /\ queue' = Tail(queue)
          /\ Head(queue) = transaction.crud
          /\ acked' = 1

\* C16: each invocation requests the next pending transaction once and
\* touches only that one, so transactions are acknowledged in queue order and
\* no operation of a later transaction is issued before every earlier
\* transaction has been acknowledged.
C16_QueueOrder ==
    /\ []C16_OneTransaction
    /\ [][C16_Step]_vars

\* The second of two transactions is being uploaded after the first was
\* acknowledged and applied.
C16_Witness ==
    /\ pc = "await"
    /\ Len(queue) = 1
    /\ NumOps = 1
    /\ \E c \in remote : c # Dispatch(transaction.crud[1]) /\ c.method = "upsert"

\* C19 as claimed: an invocation calls complete() at most once.
C19_CompleteAtMostOnce == completeCalls <= 1

\* C19, amended: an invocation calls complete() at most twice and the
\* transaction is acknowledged at most once; complete() is called a second
\* time only when its first call, made after every operation had succeeded,
\* rejected with an error carrying a Fatal-matching string code; after a
\* failure of an operation it is called at most once.
C19_CompleteTwiceOnlyAfterFatal ==
    /\ completeCalls <= 2
    /\ acked <= 1
    /\ completeCalls = 2 =>
          /\ idx = NumOps
          /\ calls = OpsCalls(NumOps)
          /\ NumOps > 0 => result = Result(Null)
          /\ CatchEntered
          /\ CaughtEx \in CompleteFailures
          /\ CaughtEx.code.t = "string"
          /\ FiveCharsFatal(CaughtEx.code.v)
    /\ (CatchEntered /\ CaughtEx \notin CompleteFailures) => completeCalls <= 1

\* complete() rejected with code 23503 after both operations had succeeded,
\* and was called again.
C19_Witness ==
    /\ completeCalls = 2
    /\ NumOps = 2
    /\ acked = 1
    /\ Finished

----------------------------------------------------------------------------
(* Properties of init. *)

\* C9: when init() calls overlap, only the first calls getSession() and the
\* initialized notification is sent once.
C9_OverlapFetchesOnce ==
    /\ Cardinality({c \in InitCalls : initPc[c] = "fetching"}) <= 1
    /\ CountEvents("initialized") <= 1

\* An init() call made while ready is set returns without changing anything.
C10_Step ==
    \A c \in InitCalls :
        (ready /\ initPc[c] = "new" /\ initPc'[c] # "new") =>
            /\ initPc'[c] = "skipped"
            /\ UNCHANGED <<ready, currentSession, providerSession, events>>
            /\ UNCHANGED uploadVars

\* C10: init() calls made one after the other: after the first has returned
\* successfully there has been one successful session fetch and one
\* initialized notification, no call fetches as long as none failed before,
\* and a call made from then on returns without changing any state.
C10_SequentialInit ==
    /\ [][C10_Step]_vars
    /\ [](ready =>
            /\ Cardinality({c \in InitCalls : initPc[c] = "done"}) = 1
            /\ CountEvents("initialized") = 1
            /\ NoInitInFlight)
    /\ []((\A c \in InitCalls : initPc[c] # "failed") => Cardinality(Fetchers) <= 1)

\* A second init() call has returned after the first found a session.
C10_Witness ==
    /\ ready
    /\ currentSession # NoSession
    /\ \E c, d \in InitCalls : initPc[c] = "done" /\ initPc[d] = "skipped"

----------------------------------------------------------------------------
(* Properties of login and fetchCredentials, and of the session state. *)

\* What a step that ends a login() call does.
C11_Step ==
    \A c \in LoginCalls :
        (loginOutcome[c] = Running /\ loginOutcome'[c] # Running) =>
            \/ /\ loginOutcome'[c].type = "threw"
               /\ loginOutcome'[c].error.message = <<"Invalid login credentials">>
               /\ currentSession' = currentSession
               /\ events' = events
            \/ /\ loginOutcome'[c] = Returned
               /\ currentSession' # NoSession
               /\ currentSession' = providerSession'
               /\ Len(events') = Len(events) + 1
               /\ events'[Len(events')].type = "sessionStarted"
               /\ events'[Len(events')].session = currentSession'

\* C11: when the provider refuses the login, login fails with an error
\* carrying the provider's message, currentSession is unchanged and no
\* sessionStarted is emitted; when it succeeds, currentSession is replaced by
\* the new session and sessionStarted is emitted with it.
C11_Login == [][C11_Step]_vars

\* A login replaced the session that init had found.
C11_Witness ==
    /\ \E c \in LoginCalls : loginOutcome[c] = Returned
    /\ Len(events) = 3
    /\ events[1].type = "sessionStarted"
    /\ events[2].type = "initialized"
    /\ events[3].type = "sessionStarted"
    /\ events[3].session # events[1].session
    /\ currentSession = events[3].session

\* C12: fetchCredentials fails with a credentials-unavailable error when the
\* provider returns no session or an error; otherwise it returns the
\* configured endpoint, the session's access token or "" when it has none, and
\* an expiry only when the session carries one (its expires_at seconds as
\* milliseconds).
C12_Credentials ==
    credResponse.resolved =>
        IF ~credResponse.session.present \/ credResponse.error # Null
        THEN /\ credOutcome.type = "threw"
             /\ credOutcome.error.name = "Error"
             /\ credOutcome.error.message[1] = "Could not fetch Supabase credentials: "
        ELSE /\ credOutcome.type = "returned"
             /\ credOutcome.value.endpoint = PowersyncUrl
             /\ credOutcome.value.token =
                   IF credResponse.session.access_token.has
                   THEN credResponse.session.access_token.v
                   ELSE ""
             /\ credOutcome.value.expiresAt.has => credResponse.session.expires_at.has
             /\ credOutcome.value.expiresAt.has =>
                   credOutcome.value.expiresAt.ms = credResponse.session.expires_at.secs * 1000

\* Credentials were returned for a session with neither a token nor an expiry.
C12_Witness ==
    /\ credResponse.resolved
    /\ credResponse.session = SessionBare
    /\ credOutcome.type = "returned"
    /\ credOutcome.value.token = ""
    /\ ~credOutcome.value.expiresAt.has

\* The outcome of fetchCredentials as a function of what getSession()
\* resolved with and of the configured endpoint.
OutcomeOf(response, endpoint) ==
    IF response.session.present /\ response.error = Null
    THEN [type |-> "returned", error |-> Null,
          value |-> [endpoint |-> endpoint,
                     token |-> IF response.session.access_token.has
                               THEN response.session.access_token.v
                               ELSE "",
                     expiresAt |-> IF response.session.expires_at.has
                                   THEN [has |-> TRUE,
                                         ms |-> response.session.expires_at.secs * 1000]
                                   ELSE [has |-> FALSE, ms |-> 0]]]
    ELSE [type |-> "threw",
          error |-> [name |-> "Error", code |-> Undefined,
                     message |-> <<"Could not fetch Supabase credentials: ">>
                                 \o (IF response.error = Null
                                     THEN <<"null">>
                                     ELSE <<response.error.name, ": ">>
                                          \o response.error.message)]]

\* C17: the outcome of fetchCredentials is a function of the session the
\* provider returned to this call and of the configured endpoint alone: two
\* calls given the same response end the same way whatever session the
\* connector has cached.
C17_ProviderSessionDecides ==
    credResponse.resolved => credOutcome = OutcomeOf(credResponse, PowersyncUrl)

\* fetchCredentials failed for want of a provider session while the connector
\* still has one cached.
C17_Witness ==
    /\ credResponse = Response(NoSession, Null)
    /\ credOutcome.type = "threw"
    /\ currentSession # NoSession
    /\ ready

\* A step in which ready or currentSession changes ends an init() or a
\* login() call that was awaiting the provider; a step of uploadData or of
\* fetchCredentials changes neither.
C18_Step ==
    /\ (ready' # ready \/ currentSession' # currentSession) =>
          \/ \E c \in InitCalls : initPc[c] = "fetching" /\ initPc'[c] = "done"
          \/ \E c \in LoginCalls : loginOutcome[c] = Running /\ loginOutcome'[c] = Returned
    /\ (uploadVars' # uploadVars \/ credOutcome' # credOutcome
                                 \/ credResponse' # credResponse) =>
          /\ ready' = ready
          /\ currentSession' = currentSession

\* C18: ready and currentSession are changed by init and login only;
\* fetchCredentials and uploadData leave both as they were on every path.
C18_SessionStateFrame == [][C18_Step]_vars

\* An upload was acknowledged and credentials returned with the connector
\* ready and holding the session a login gave it.
C18_Witness ==
    /\ ready
    /\ currentSession = SessionBare
    /\ Finished
    /\ acked = 1
    /\ credOutcome.type = "returned"

\* What the steps of an init() call do.
C20_Step ==
    \A c \in InitCalls :
        /\ (initPc[c] = "new" /\ initPc'[c] # "new" /\ ~ready) =>
              initPc'[c] = "fetching"
        /\ (initPc[c] = "fetching" /\ initPc'[c] = "failed") =>
              /\ ready' = ready
              /\ currentSession' = currentSession
              /\ events' = events
        /\ (initPc[c] = "fetching" /\ initPc'[c] = "done") =>
              /\ ready'
              /\ currentSession' = providerSession
              /\ events'[Len(events')] = Initialized(TRUE)
              /\ IF providerSession.present
                 THEN /\ Len(events') = Len(events) + 2
                      /\ events'[Len(events) + 1].type = "sessionStarted"
                      /\ events'[Len(events) + 1].session = providerSession
                 ELSE Len(events') = Len(events) + 1

\* No initialized event without a session fetch of init that resolved.
C20_ReadyAfterFetch ==
    /\ ready => \E c \in InitCalls : initPc[c] = "done"
    /\ CountEvents("initialized") = Cardinality({c \in InitCalls : initPc[c] = "done"})

\* C20: ready is set only by an init whose session fetch resolved; when the
\* fetch rejects, ready stays false, initialized is not emitted and a later
\* init fetches again; with a session, sessionStarted is emitted before
\* initialized and ready is already true when the initialized listeners run;
\* without one, initialized is emitted alone.
C20_InitOrder ==
    /\ []C20_ReadyAfterFetch
    /\ [][C20_Step]_vars

\* An init failed at its fetch and another then found a session.
C20_Witness ==
    /\ ready
    /\ \E c \in InitCalls : initPc[c] = "failed"
    /\ Cardinality({c \in InitCalls : initPc[c] = "done"}) = 1
    /\ Len(events) = 2
    /\ events[1].type = "sessionStarted"
    /\ ~events[1].ready
    /\ events[2] = Initialized(TRUE)

====
